---- MODULE Spec2Model ----
(***************************************************************************)
(* Model of tools/makefont.py: compile(src) turns a textual font           *)
(* description into packed bytes, one byte per glyph row.                  *)
(*                                                                         *)
(* A text is a sequence of characters.  The character alphabet has one     *)
(* representative of every class the code distinguishes:                   *)
(*   "."            the "off" symbol                                       *)
(*   "*", "@"       the "on" symbols                                       *)
(*   " "            whitespace that is not a line boundary                 *)
(*   "\n", "\r"     line boundaries ("\r\n" is a single boundary)          *)
(*   "#"            any other character                                    *)
(***************************************************************************)
EXTENDS Integers, Sequences, FiniteSets, TLC

VARIABLES src, pc, ret, exc

vars == <<src, pc, ret, exc>>

(***************************** bounds **************************************)
\* longest text of the general specification
MaxLen == 4
\* longest text of the line-insertion specification
MaxDoc == 3
\* widest symbol run of the wide-row specification
MaxRun == 9
\* longest whitespace prefix put in front of a text, and longest line
\* inserted into a text
MaxPad == 2

(************************** character classes ******************************)
Symbols == {".", "*", "@"}

LineBreaks == {"\n", "\r"}

Whitespace == {" ", "\n", "\r"}

Chars == Symbols \cup Whitespace \cup {"#"}

\* all texts over alphabet A of length lo..hi
TextsOver(A, lo, hi) == UNION {[1..k -> A] : k \in lo..hi}

(************************** str.lstrip *************************************)
\* variant: only blanks are stripped, as by lstrip(' ')
RECURSIVE lstripSpaces(_)
lstripSpaces(s) ==
    IF s # <<>> /\ Head(s) = " " THEN lstripSpaces(Tail(s)) ELSE s

RECURSIVE lstrip(_)
lstrip(s) ==
    IF s # <<>> /\ Head(s) \in Whitespace THEN lstrip(Tail(s)) ELSE s

(************************** str.splitlines *********************************)
\* index of the first line boundary character of s, Len(s)+1 when none
FirstBreak(s) ==
    LET brk == {i \in 1..Len(s) : s[i] \in LineBreaks}
    IN IF brk = {} THEN Len(s) + 1
       ELSE CHOOSE i \in brk : \A j \in brk : i <= j

RECURSIVE splitlines(_)
splitlines(s) ==
    IF s = <<>> THEN <<>>
    ELSE LET j == FirstBreak(s)
             eol == IF j > Len(s) THEN 0
                    ELSE IF s[j] = "\r" /\ j < Len(s) /\ s[j + 1] = "\n" THEN 2
                    ELSE 1
         IN <<SubSeq(s, 1, j - 1)>> \o splitlines(SubSeq(s, j + eol, Len(s)))

(************************** BITMAP_PATTERN.match ***************************)
\* length of the longest prefix of line made of symbols
RECURSIVE RunLen(_)
RunLen(line) ==
    IF line # <<>> /\ Head(line) \in Symbols THEN 1 + RunLen(Tail(line)) ELSE 0

\* variant: BITMAP_PATTERN.search(line), the first run anywhere in the line
BITMAP_PATTERN_search(line) ==
    LET at == {i \in 1..Len(line) : line[i] \in Symbols}
    IN IF at = {} THEN [matched |-> FALSE, group1 |-> <<>>]
       ELSE LET i == CHOOSE k \in at : \A j \in at : k <= j
                rest == SubSeq(line, i, Len(line))
            IN [matched |-> TRUE, group1 |-> SubSeq(rest, 1, RunLen(rest))]

\* variant: BITMAP_PATTERN.fullmatch(line), the whole line must be a run
BITMAP_PATTERN_fullmatch(line) ==
    LET n == RunLen(line)
    IN IF n > 0 /\ n = Len(line)
       THEN [matched |-> TRUE, group1 |-> line]
       ELSE [matched |-> FALSE, group1 |-> <<>>]

\* variant: the pattern [.*@]{1,8}, a run of at most eight symbols
BITMAP_PATTERN_match8(line) ==
    LET n == IF RunLen(line) > 8 THEN 8 ELSE RunLen(line)
    IN [matched |-> n > 0, group1 |-> SubSeq(line, 1, n)]

\* re.compile(r'([.*@]+)').match(line): anchored at the start, greedy, at
\* least one symbol; matched = FALSE stands for the None result
BITMAP_PATTERN_match(line) ==
    LET n == RunLen(line)
    IN [matched |-> n > 0, group1 |-> SubSeq(line, 1, n)]

(************************** bit extraction and packing *********************)
\* variant: only '*' is an "on" symbol
BitsStarOnly(run) == [i \in 1..Len(run) |-> IF run[i] = "*" THEN 1 ELSE 0]

Bits(run) == [i \in 1..Len(run) |-> IF run[i] = "." THEN 0 ELSE 1]

\* variant: functools.reduce(lambda a, b: a + 2*b, bits)
RECURSIVE ReduceSwapped(_)
ReduceSwapped(bits) ==
    IF Len(bits) = 1 THEN bits[1]
    ELSE ReduceSwapped(SubSeq(bits, 1, Len(bits) - 1)) + 2 * bits[Len(bits)]

\* functools.reduce(lambda a, b: 2*a + b, bits), bits non-empty
RECURSIVE Reduce(_)
Reduce(bits) ==
    IF Len(bits) = 1 THEN bits[1]
    ELSE 2 * Reduce(SubSeq(bits, 1, Len(bits) - 1)) + bits[Len(bits)]

RECURSIVE Pow(_, _)
Pow(b, e) == IF e = 0 THEN 1 ELSE b * Pow(b, e - 1)

\* length argument of to_bytes
ByteLen == 1

\* bits of one output unit, and the largest value it holds
ByteBits == 8 * ByteLen
MaxByte == Pow(256, ByteLen) - 1

\* variant: the value is wrapped to the low bytes instead of rejected
ToBytesWrap(n, length) ==
    [exc |-> "None",
     bytes |-> [i \in 1..length |-> (n \div Pow(256, i - 1)) % 256]]

\* int.to_bytes(length, byteorder='little') of a non-negative int
ToBytes(n, length) ==
    IF n >= Pow(256, length)
    THEN [exc |-> "OverflowError", bytes |-> <<>>]
    ELSE [exc |-> "None",
          bytes |-> [i \in 1..length |-> (n \div Pow(256, i - 1)) % 256]]

(************************** b''.join ***************************************)
RECURSIVE Join(_)
Join(parts) == IF parts = <<>> THEN <<>> ELSE Head(parts) \o Join(Tail(parts))

(************************** compile ****************************************)
\* variant: result.insert(0, ...) instead of result.append(...)
RECURSIVE LoopPrepend(_, _)
LoopPrepend(lines, result) ==
    IF lines = <<>> THEN [exc |-> "None", ret |-> Join(result)]
    ELSE LET m == BITMAP_PATTERN_match(Head(lines))
         IN IF ~m.matched THEN LoopPrepend(Tail(lines), result)
            ELSE LET bits_int == Reduce(Bits(m.group1))
                     b == ToBytes(bits_int, ByteLen)
                 IN IF b.exc # "None" THEN [exc |-> b.exc, ret |-> <<>>]
                    ELSE LoopPrepend(Tail(lines), <<b.bytes>> \o result)

\* variant: a line without match appends a zero byte instead of being skipped
RECURSIVE LoopNoSkip(_, _)
LoopNoSkip(lines, result) ==
    IF lines = <<>> THEN [exc |-> "None", ret |-> Join(result)]
    ELSE LET m == BITMAP_PATTERN_match(Head(lines))
         IN IF ~m.matched THEN LoopNoSkip(Tail(lines), Append(result, <<0>>))
            ELSE LET bits_int == Reduce(Bits(m.group1))
                     b == ToBytes(bits_int, ByteLen)
                 IN IF b.exc # "None" THEN [exc |-> b.exc, ret |-> <<>>]
                    ELSE LoopNoSkip(Tail(lines), Append(result, b.bytes))

\* the for loop over the lines; result is the list of bytes objects so far
RECURSIVE Loop(_, _)
Loop(lines, result) ==
    IF lines = <<>> THEN [exc |-> "None", ret |-> Join(result)]
    ELSE LET m == BITMAP_PATTERN_match(Head(lines))
         IN IF ~m.matched THEN Loop(Tail(lines), result)
            ELSE LET bits_int == Reduce(Bits(m.group1))
                     b == ToBytes(bits_int, ByteLen)
                 IN IF b.exc # "None" THEN [exc |-> b.exc, ret |-> <<>>]
                    ELSE Loop(Tail(lines), Append(result, b.bytes))

\* variant: every line is stripped too, as by line.lstrip()
compilePerLine(s) ==
    LET lines == splitlines(lstrip(s))
    IN Loop([i \in 1..Len(lines) |-> lstrip(lines[i])], <<>>)

compile(s) == Loop(splitlines(lstrip(s)), <<>>)

(************************** state machine **********************************)
\* what surrounds the row in the inputs of the wide-row specification: the
\* row alone, between two other rows, and indented with other text after it
WideFrames ==
    {<< <<>>, <<>> >>,
     << <<"@", "\n">>, <<"\n", ".">> >>,
     << <<" ">>, <<"#", "*">> >>}

InitVars ==
    /\ pc = "call"
    /\ ret = <<>>
    /\ exc = "None"

Init ==
    /\ \E k \in 0..MaxLen : src \in [1..k -> Chars]
    /\ InitVars

InsertInit ==
    /\ \E k \in 0..MaxDoc : src \in [1..k -> Chars]
    /\ InitVars

WideInit ==
    /\ \E f \in WideFrames, k \in 1..MaxRun :
          \E run \in [1..k -> Symbols] : src = f[1] \o run \o f[2]
    /\ InitVars

\* one call of compile(src): it returns bytes or raises
Compile ==
    /\ pc = "call"
    /\ LET r == compile(src)
       IN /\ ret' = r.ret
          /\ exc' = r.exc
    /\ pc' = "done"
    /\ UNCHANGED src

Next == Compile

Spec == Init /\ [][Next]_vars

InsertSpec == InsertInit /\ [][Next]_vars

WideSpec == WideInit /\ [][Next]_vars

(************************** reference notions ******************************)
\* the line starts with a recognized symbol
HasRun(line) == line # <<>> /\ line[1] \in Symbols

\* every character of s is a recognized symbol
IsRun(s) == \A i \in 1..Len(s) : s[i] \in Symbols

\* the maximal run of recognized symbols at the start of the line
LeadingRun(line) ==
    LET n == CHOOSE k \in 0..Len(line) :
                 /\ \A i \in 1..k : line[i] \in Symbols
                 /\ k = Len(line) \/ line[k + 1] \notin Symbols
    IN SubSeq(line, 1, n)

\* s read as a binary number, "." = 0, "*" = "@" = 1, first symbol most
\* significant
RECURSIVE BinaryValue(_)
BinaryValue(s) ==
    IF s = <<>> THEN 0
    ELSE (IF Head(s) = "." THEN 0 ELSE 1) * Pow(2, Len(s) - 1)
         + BinaryValue(Tail(s))

RowValue(line) == BinaryValue(LeadingRun(line))

\* the lines of text s, top to bottom, that start with a recognized run
Rows(s) == SelectSeq(splitlines(s), HasRun)

\* the result of the call the state records
Outcome == [exc |-> exc, ret |-> ret]

\* positions of s at which a line starts (0: before the first character)
Cuts(s) ==
    {i \in 0..Len(s) :
        /\ i = 0 \/ s[i] \in LineBreaks
        /\ ~(i > 0 /\ i < Len(s) /\ s[i] = "\r" /\ s[i + 1] = "\n")}

\* s with line u inserted as a line of its own after the first i characters
InsertLine(s, i, u) ==
    SubSeq(s, 1, i) \o u \o <<"\n">> \o SubSeq(s, i + 1, Len(s))

\* s, which does not end in a line boundary, with u added as its last line
AppendLine(s, u) == s \o <<"\n">> \o u

EndsOpen(s) == s # <<>> /\ s[Len(s)] \notin LineBreaks

\* the lines without line boundary whose first character is no symbol
UnmatchedLines ==
    {u \in TextsOver(Chars \ LineBreaks, 0, MaxPad) : ~HasRun(u)}

\* a whitespace character followed by a run of symbols
IndentedRows == {<<" ">> \o r : r \in TextsOver(Symbols, 1, MaxPad)}

WhitespaceStrings == TextsOver(Whitespace, 0, MaxPad)

(************************** claims *****************************************)
\* the rows of the text once its leading whitespace is stripped
StrippedRows == Rows(lstrip(src))

\* some row of the stripped text packs to more than one byte holds
SomeRowOverflows ==
    LET rows == StrippedRows
    IN \E k \in 1..Len(rows) : RowValue(rows[k]) > MaxByte

\* C1 as stated: compile returns as many bytes as the text as given, split on
\* line breaks, has lines starting with a run of symbols.
C1_AsGiven ==
    pc = "done" => exc = "None" /\ Len(ret) = Len(Rows(src))

\* C1 amended: when compile returns, the number of bytes equals the number of
\* lines of the text with its leading whitespace stripped that start with a
\* run of symbols; when it raises, no byte is returned.
C1_ByteCount ==
    pc = "done" =>
        /\ exc = "None" => Len(ret) = Len(StrippedRows)
        /\ exc # "None" => ret = <<>>

\* ' *' and a comment line: no line as given starts with a run, one byte
C1_Witness ==
    /\ pc = "done"
    /\ src = <<" ", "*", "\n", "#">>
    /\ Rows(src) = <<>>
    /\ ret = <<1>>

\* C2: a text that is a single run s of 1..8 symbols compiles to exactly one
\* byte, s read as a binary number with "." = 0 and "*" = "@" = 1, first
\* symbol most significant.
C2_SingleRun ==
    pc = "done" /\ IsRun(src) /\ Len(src) \in 1..ByteBits =>
        exc = "None" /\ ret = <<BinaryValue(src)>>

\* the five-symbol run '@.*..' packs into the low bits: 10100b = 20
C2_Witness ==
    /\ pc = "done"
    /\ src = <<"@", ".", "*", ".", ".">>
    /\ ret = <<20>>

\* C3: when every row is at most 8 symbols wide, the output is exactly the
\* packed values of the rows in line order: byte k is the value of the k-th
\* row, and there is no other byte.
C3_LineOrder ==
    LET rows == StrippedRows
    IN pc = "done"
       /\ (\A k \in 1..Len(rows) : Len(LeadingRun(rows[k])) <= ByteBits)
       => /\ exc = "None"
          /\ ret = [k \in 1..Len(rows) |-> RowValue(rows[k])]

\* two rows give two bytes, the first row first
C3_Witness ==
    /\ pc = "done"
    /\ src = <<"*", ".", "\n", "@">>
    /\ ret = <<2, 1>>

WideRows(rows) ==
    {k \in 1..Len(rows) : Len(LeadingRun(rows[k])) > ByteBits}

C6_LeadingWhitespace ==
    pc = "done" =>
        \A w \in WhitespaceStrings : compile(w \o src) = Outcome

\* a blank line and a blank in front of two rows change nothing
C6_Witness ==
    /\ pc = "done"
    /\ src = <<"@", ".", "\n", "*">>
    /\ ret = <<2, 1>>
    /\ compile(<<"\n", " ">> \o src).ret = <<2, 1>>

\* every line of the text as given starts with no symbol
OnlyUnmatchedLines ==
    \A k \in 1..Len(splitlines(src)) : ~HasRun(splitlines(src)[k])

\* C7 as stated: a line that does not start with a symbol can be inserted at
\* any line position of any text without changing the output, and a text of
\* such lines only compiles to no byte.
C7_AnyPosition ==
    pc = "done" =>
        /\ \A u \in UnmatchedLines :
            /\ \A i \in Cuts(src) : compile(InsertLine(src, i, u)) = Outcome
            /\ EndsOpen(src) => compile(AppendLine(src, u)) = Outcome
        /\ OnlyUnmatchedLines => exc = "None" /\ ret = <<>>

\* u can be put in front of text b without changing what b compiles to: u is
\* blank, or u stripped still starts with no symbol and b starts with no
\* whitespace
SafeInFront(u, b) ==
    \/ lstrip(u) = <<>>
    \/ ~HasRun(lstrip(u)) /\ lstrip(b) = b

\* C7 amended: such a line changes nothing when inserted after the first
\* non-whitespace character of the text; in front of it, it changes nothing
\* when it is blank, or when it still starts with no symbol once stripped and
\* the text after it starts with no whitespace.  A text of such lines only
\* compiles to no byte when its first non-whitespace character is no symbol.
C7_UnmatchedLine ==
    pc = "done" =>
        /\ \A u \in UnmatchedLines :
            /\ \A i \in Cuts(src) :
                (lstrip(SubSeq(src, 1, i)) # <<>>
                    \/ SafeInFront(u, SubSeq(src, i + 1, Len(src))))
                => compile(InsertLine(src, i, u)) = Outcome
            /\ EndsOpen(src) /\ (lstrip(src) # <<>> \/ SafeInFront(u, <<>>))
                => compile(AppendLine(src, u)) = Outcome
        /\ OnlyUnmatchedLines /\ ~HasRun(lstrip(src)) => exc = "None" /\ ret = <<>>

\* the line '#*' inserted between two rows adds no byte
C7_Witness ==
    /\ pc = "done"
    /\ src = <<"*", "\n", "@">>
    /\ ret = <<1, 1>>
    /\ 2 \in Cuts(src)
    /\ compile(InsertLine(src, 2, <<"#", "*">>)).ret = <<1, 1>>

\* C8: a line made of a whitespace character and a run of symbols gives no
\* byte when it is put anywhere after the first line of the stripped text,
\* and gives the byte of its run when it is the first line of the text.
C8_TrimOncePerDocument ==
    pc = "done" =>
        \A l \in IndentedRows :
            /\ \A i \in Cuts(src) :
                lstrip(SubSeq(src, 1, i)) # <<>>
                => compile(InsertLine(src, i, l)) = Outcome
            /\ EndsOpen(src) /\ lstrip(src) # <<>>
                => compile(AppendLine(src, l)) = Outcome
            /\ compile(l) = [exc |-> "None", ret |-> <<BinaryValue(Tail(l))>>]
            /\ LET first == compile(InsertLine(src, 0, l))
               IN first.exc = "None" =>
                    /\ Len(first.ret) = 1 + Len(Rows(src))
                    /\ first.ret[1] = BinaryValue(Tail(l))

\* ' @' after the row '*.' gives no byte, in front of it the byte 1
C8_Witness ==
    /\ pc = "done"
    /\ src = <<"*", ".">>
    /\ ret = <<2>>
    /\ compile(AppendLine(src, <<" ", "@">>)).ret = <<2>>
    /\ compile(InsertLine(src, 0, <<" ", "@">>)).ret = <<1, 2>>

\* C9: a one-line text s + c + r, with s a run of at most 8 symbols, c neither
\* a symbol nor a line break and r free of line breaks, compiles to the single
\* byte of s, as the line s does, whatever symbols r holds.
C9_AnchoredRun ==
    pc = "done" =>
        \A n \in 1..(Len(src) - 1) :
            /\ n <= ByteBits
            /\ IsRun(SubSeq(src, 1, n))
            /\ src[n + 1] \notin Symbols
            /\ \A i \in (n + 1)..Len(src) : src[i] \notin LineBreaks
            => /\ Outcome = [exc |-> "None", ret |-> <<BinaryValue(SubSeq(src, 1, n))>>]
               /\ compile(SubSeq(src, 1, n)) = Outcome

\* the symbols after '#' do not count: '@#*.' is the row '@'
C9_Witness ==
    /\ pc = "done"
    /\ src = <<"@", "#", "*", ".">>
    /\ ret = <<1>>

\* the integer the loop accumulates for a line that matches
PackedValue(line) == Reduce(Bits(BITMAP_PATTERN_match(line).group1))

\* C10 as stated: the rows at most 8 symbols wide are exactly the rows whose
\* accumulated value fits one byte.
C10_WideMeansOutOfRange ==
    pc = "done" =>
        LET rows == StrippedRows
        IN \A k \in 1..Len(rows) :
            Len(LeadingRun(rows[k])) <= ByteBits
            <=> PackedValue(rows[k]) <= MaxByte

\* C10 amended: the accumulated value of a row exceeds 255 exactly when one of
\* the symbols before its last 8 is "*" or "@"; so every row of at most 8
\* symbols fits one byte, and so does a wider row whose extra leading symbols
\* are all ".".
C10_OutOfRange ==
    pc = "done" =>
        LET rows == StrippedRows
        IN \A k \in 1..Len(rows) :
            LET run == LeadingRun(rows[k])
            IN PackedValue(rows[k]) > MaxByte
               <=> \E i \in 1..(Len(run) - ByteBits) : run[i] # "."

\* the nine-symbol row '........*' accumulates to 1 and fits one byte
C10_Witness ==
    /\ pc = "done"
    /\ src = <<".", ".", ".", ".", ".", ".", ".", ".", "*">>
    /\ PackedValue(src) = 1
    /\ exc = "None"
    /\ ret = <<1>>

====
